---- MODULE Spec2Model ----
(***************************************************************************)
(* check_flows.py: excel_to_cidr_dict (the topology loader) and the flow   *)
(* checking loop of main().                                                *)
(*                                                                         *)
(* Text is modelled structurally.  A tag or a comma separated tag list is  *)
(* a sequence of one-character strings.  A CIDR cell is a record           *)
(* [octets, prefix, spaces]: the dotted quad, the number after the slash   *)
(* and the number of blanks inside the cell.  A /24 key ("10.123.4") is    *)
(* the tuple of its three octets.                                          *)
(***************************************************************************)
EXTENDS Integers, Sequences, FiniteSets, TLC

VARIABLES sheet, show_warnings, row_idx, return_dict, printed, info, flowlog, fieldnames, line_num, total_count, failed_count, success_count, unmatched_count, failed_strings, warning_strings, locals, summary, eof, pc

vars == <<sheet, show_warnings, row_idx, return_dict, printed, info, flowlog, fieldnames, line_num, total_count, failed_count, success_count, unmatched_count, failed_strings, warning_strings, locals, summary, eof, pc>>

loaderVars == <<sheet, row_idx, return_dict, printed>>

checkerVars == <<flowlog, eof, fieldnames, line_num, total_count, failed_count, success_count, unmatched_count, failed_strings, warning_strings, locals, summary>>

(***************************************************************************)
(* Bounds of the model.                                                    *)
(***************************************************************************)
MaxTopoRows == 2

MaxFlowRows == 3

(***************************************************************************)
(* Program constants.                                                      *)
(***************************************************************************)
NewPrefix == 24

MaxPrefixLen == 32

OctetSize == 256

(***************************************************************************)
(* Text helpers: str.split(','), str.strip(), the list comprehension of    *)
(* line 67.                                                                *)
(***************************************************************************)
RECURSIVE Split(_, _)
Split(s, sep) ==
  IF \A i \in 1..Len(s) : s[i] # sep
  THEN <<s>>
  ELSE LET i == CHOOSE j \in 1..Len(s) : s[j] = sep /\ \A m \in 1..(j - 1) : s[m] # sep
       IN <<SubSeq(s, 1, i - 1)>> \o Split(SubSeq(s, i + 1, Len(s)), sep)

RECURSIVE Strip(_)
Strip(s) ==
  IF s = <<>> THEN s
  ELSE IF s[1] = " " THEN Strip(Tail(s))
  ELSE IF s[Len(s)] = " " THEN Strip(SubSeq(s, 1, Len(s) - 1))
  ELSE s

ParsePropagateTo(propagate_to_str) ==
  IF propagate_to_str # <<>>
  THEN LET parts == Split(propagate_to_str, ",") IN [i \in 1..Len(parts) |-> Strip(parts[i])]
  ELSE <<>>

RemoveSpaces(cidr) == [cidr EXCEPT !.spaces = 0]

(***************************************************************************)
(* ipaddress: ip_network (strict) and IPv4Network.subnets(new_prefix).     *)
(* A result is [raised, value]; raised stands for ValueError.              *)
(***************************************************************************)
RECURSIVE Pow2(_)
Pow2(n) == IF n = 0 THEN 1 ELSE 2 * Pow2(n - 1)

AddrOf(octets) == ((octets[1] * OctetSize + octets[2]) * OctetSize + octets[3]) * OctetSize + octets[4]

OctetsOf(addr) == <<addr \div (OctetSize * OctetSize * OctetSize), (addr \div (OctetSize * OctetSize)) % OctetSize, (addr \div OctetSize) % OctetSize, addr % OctetSize>>

IPNetwork(cidr) ==
  IF cidr.spaces > 0 \/ cidr.prefix < 0 \/ cidr.prefix > MaxPrefixLen
  THEN [raised |-> TRUE, value |-> cidr]
  ELSE IF AddrOf(cidr.octets) % Pow2(MaxPrefixLen - cidr.prefix) # 0
  THEN [raised |-> TRUE, value |-> cidr]
  ELSE [raised |-> FALSE, value |-> cidr]

SubnetsFirstOnly(net, new_prefix) ==
  IF new_prefix < net.prefix
  THEN [raised |-> TRUE, value |-> <<>>]
  ELSE [raised |-> FALSE, value |-> <<[octets |-> net.octets, prefix |-> new_prefix, spaces |-> 0]>>]

SubnetsSupernet(net, new_prefix) ==
  LET base == AddrOf(net.octets)
      step == Pow2(MaxPrefixLen - new_prefix)
  IN IF new_prefix < net.prefix
     THEN [raised |-> FALSE, value |-> <<[octets |-> OctetsOf(base - (base % step)), prefix |-> new_prefix, spaces |-> 0]>>]
     ELSE [raised |-> FALSE, value |-> [i \in 1..Pow2(new_prefix - net.prefix) |-> [octets |-> OctetsOf(base + (i - 1) * step), prefix |-> new_prefix, spaces |-> 0]]]

Subnets(net, new_prefix) ==
  IF new_prefix < net.prefix
  THEN [raised |-> TRUE, value |-> <<>>]
  ELSE LET base == AddrOf(net.octets)
           step == Pow2(MaxPrefixLen - new_prefix)
           count == Pow2(new_prefix - net.prefix)
       IN [raised |-> FALSE, value |-> [i \in 1..count |-> [octets |-> OctetsOf(base + (i - 1) * step), prefix |-> new_prefix, spaces |-> 0]]]

KeyOf(cidr24) == SubSeq(cidr24.octets, 1, 3)

(***************************************************************************)
(* excel_to_cidr_dict: one iteration of the loop over the sheet rows.      *)
(***************************************************************************)
EmptyDict == [k \in {} |-> 0]

DictSetKeepFirst(d, key, value) == [k \in (DOMAIN d) \cup {key} |-> IF k \in DOMAIN d THEN d[k] ELSE value]

DictSet(d, key, value) == [k \in (DOMAIN d) \cup {key} |-> IF k = key THEN value ELSE d[k]]

Information(row) == [cidr |-> RemoveSpaces(row.cidr), account_id |-> row.account_id, name |-> row.name, vpc_id |-> row.vpc_id, associate_with |-> row.associate_with, propagate_to |-> ParsePropagateTo(row.propagate_to)]

RowSubnets(row) ==
  LET net == IPNetwork(Information(row).cidr)
  IN IF net.raised THEN [raised |-> TRUE, value |-> <<>>] ELSE Subnets(net.value, NewPrefix)

RECURSIVE InsertKeys(_, _, _)
InsertKeys(d, cidr24s, information) ==
  IF cidr24s = <<>> THEN d
  ELSE InsertKeys(DictSet(d, KeyOf(Head(cidr24s)), information), Tail(cidr24s), information)

SkipMessage(information) == [cidr |-> information.cidr, name |-> information.name]

LoadRowStepAlwaysWarn(st, row, warn) ==
  LET information == Information(row)
      subnets == RowSubnets(row)
  IN IF subnets.raised
     THEN [return_dict |-> st.return_dict, printed |-> Append(st.printed, SkipMessage(information))]
     ELSE [return_dict |-> InsertKeys(st.return_dict, subnets.value, information), printed |-> st.printed]

LoadRowStep(st, row, warn) ==
  LET information == Information(row)
      subnets == RowSubnets(row)
  IN IF subnets.raised
     THEN [return_dict |-> st.return_dict, printed |-> IF warn THEN Append(st.printed, SkipMessage(information)) ELSE st.printed]
     ELSE [return_dict |-> InsertKeys(st.return_dict, subnets.value, information), printed |-> st.printed]

RECURSIVE LoadRows(_, _, _)
LoadRows(st, rows, warn) ==
  IF rows = <<>> THEN st ELSE LoadRows(LoadRowStep(st, Head(rows), warn), Tail(rows), warn)

ExcelToCidrDict(rows, warn) == LoadRows([return_dict |-> EmptyDict, printed |-> <<>>], rows, warn)

(***************************************************************************)
(* Inputs: the topology sheet.                                             *)
(***************************************************************************)
Cidrs == {[octets |-> <<10, 0, 0, 0>>, prefix |-> 22, spaces |-> 0], [octets |-> <<10, 0, 0, 0>>, prefix |-> 23, spaces |-> 0], [octets |-> <<10, 0, 1, 0>>, prefix |-> 23, spaces |-> 0], [octets |-> <<10, 0, 1, 0>>, prefix |-> 24, spaces |-> 0], [octets |-> <<10, 0, 4, 0>>, prefix |-> 23, spaces |-> 1], [octets |-> <<10, 0, 0, 128>>, prefix |-> 25, spaces |-> 0]}

Vpcs == {[account_id |-> "111111111111", name |-> "Core", vpc_id |-> "vpc-1", associate_with |-> <<"I">>, propagate_to |-> <<"F", ",", "S">>], [account_id |-> "222222222222", name |-> "Spoke", vpc_id |-> "vpc-2", associate_with |-> <<"S">>, propagate_to |-> <<"I", ",", " ", "S", " ">>], [account_id |-> "333333333333", name |-> "Lone", vpc_id |-> "vpc-3", associate_with |-> <<"F">>, propagate_to |-> <<>>]}

TopologyRows == {[cidr |-> c, account_id |-> v.account_id, name |-> v.name, vpc_id |-> v.vpc_id, associate_with |-> v.associate_with, propagate_to |-> v.propagate_to] : c \in Cidrs, v \in Vpcs}

Sheets == UNION {[1..n -> TopologyRows] : n \in 0..MaxTopoRows}

(***************************************************************************)
(* State after argument parsing, before excel_to_cidr_dict runs.           *)
(***************************************************************************)
NoLocals == [src_association |-> <<>>, src_name |-> <<>>, src_vpc_id |-> <<>>, src_cidr |-> <<>>, dst_propagations |-> <<>>, dst_name |-> <<>>, dst_vpc_id |-> <<>>, dst_cidr |-> <<>>]

NoFile == [header |-> <<>>, rows |-> <<>>]

CheckerIdle ==
  /\ flowlog = NoFile
  /\ eof = FALSE
  /\ summary = <<>>
  /\ fieldnames = <<>>
  /\ line_num = 0
  /\ total_count = 0
  /\ failed_count = 0
  /\ success_count = 0
  /\ unmatched_count = 0
  /\ failed_strings = {}
  /\ warning_strings = {}
  /\ locals = NoLocals

Init ==
  /\ sheet \in Sheets
  /\ show_warnings \in BOOLEAN
  /\ row_idx = 1
  /\ return_dict = EmptyDict
  /\ printed = <<>>
  /\ info = EmptyDict
  /\ CheckerIdle
  /\ pc = "load"

LoadRowApply ==
  LET st == LoadRowStep([return_dict |-> return_dict, printed |-> printed], sheet[row_idx], show_warnings)
  IN /\ return_dict' = st.return_dict
     /\ printed' = st.printed
     /\ row_idx' = row_idx + 1
     /\ UNCHANGED <<sheet, show_warnings, info, pc>>
     /\ UNCHANGED checkerVars

LoadRowExpand ==
  /\ pc = "load"
  /\ row_idx <= Len(sheet)
  /\ ~RowSubnets(sheet[row_idx]).raised
  /\ LoadRowApply

LoadRowSkip ==
  /\ pc = "load"
  /\ row_idx <= Len(sheet)
  /\ RowSubnets(sheet[row_idx]).raised
  /\ LoadRowApply

LoadReturn ==
  /\ pc = "load"
  /\ row_idx > Len(sheet)
  /\ info' = return_dict
  /\ pc' = "open"
  /\ UNCHANGED <<sheet, show_warnings, row_idx, return_dict, printed>>
  /\ UNCHANGED checkerVars

NextLoad == LoadRowExpand \/ LoadRowSkip \/ LoadReturn

SpecLoad == Init /\ [][NextLoad]_vars

(***************************************************************************)
(* csv.DictReader over the flow log: the first __next__ reads the header   *)
(* line into fieldnames and then returns the line after it; a row is the   *)
(* dict zip(fieldnames, line).  line_num counts the lines consumed.        *)
(* upcoming is what the file yields after the header: <<>> at end of file, *)
(* <<line>> otherwise.                                                     *)
(***************************************************************************)
ZipRow(names, line) == [c \in {names[i] : i \in 1..Len(names)} |-> line[CHOOSE i \in 1..Len(names) : names[i] = c]]

DictReaderNext(header, names, num, upcoming) ==
  LET names1 == IF names = <<>> THEN header ELSE names
      num1 == IF names = <<>> THEN num + 1 ELSE num
  IN IF upcoming = <<>>
     THEN [stop |-> TRUE, fieldnames |-> names1, line_num |-> num1, row |-> ZipRow(<<>>, <<>>), taken |-> FALSE]
     ELSE [stop |-> FALSE, fieldnames |-> names1, line_num |-> num1 + 1, row |-> ZipRow(names1, upcoming[1]), taken |-> TRUE]

(***************************************************************************)
(* main(): the body of the loop over the flow rows.  A local is <<>> while *)
(* unbound and <<v>> once assigned; raised stands for an exception that    *)
(* leaves main().                                                          *)
(***************************************************************************)
Lookups(l, row, inf) ==
  IF row["src"] \notin DOMAIN inf
  THEN [locals |-> l, missing |-> <<row["src"]>>]
  ELSE LET l1 == [l EXCEPT !.src_association = <<inf[row["src"]].associate_with>>, !.src_name = <<inf[row["src"]].name>>, !.src_vpc_id = <<inf[row["src"]].vpc_id>>, !.src_cidr = <<inf[row["src"]].cidr>>]
       IN IF row["dest"] \notin DOMAIN inf
          THEN [locals |-> l1, missing |-> <<row["dest"]>>]
          ELSE [locals |-> [l1 EXCEPT !.dst_propagations = <<inf[row["dest"]].propagate_to>>, !.dst_name = <<inf[row["dest"]].name>>, !.dst_vpc_id = <<inf[row["dest"]].vpc_id>>, !.dst_cidr = <<inf[row["dest"]].cidr>>], missing |-> <<>>]

WarningString(key) == <<"Warning: no entry for", key>>

FailedStringWithPackets(l, row) == <<l.src_cidr[1], l.src_name[1], l.src_vpc_id[1], l.dst_cidr[1], l.dst_name[1], l.dst_vpc_id[1], l.src_association[1], l.dst_propagations[1], row["numpackets"]>>

FailedString(l, row) == <<l.src_cidr[1], l.src_name[1], l.src_vpc_id[1], l.dst_cidr[1], l.dst_name[1], l.dst_vpc_id[1], l.src_association[1], l.dst_propagations[1]>>

InListFirstOnly(x, list) == list # <<>> /\ list[1] = x

InList(x, list) == \E i \in 1..Len(list) : list[i] = x

PolicyCheck(st, row) ==
  IF st.locals.src_association = <<>> \/ st.locals.dst_propagations = <<>>
  THEN [st EXCEPT !.raised = TRUE]
  ELSE IF ~InList(st.locals.src_association[1], st.locals.dst_propagations[1])
  THEN [st EXCEPT !.failed_count = @ + 1, !.failed_strings = @ \cup {FailedString(st.locals, row)}]
  ELSE [st EXCEPT !.success_count = @ + 1]

LoopBody(st, row, inf, warn) ==
  LET lk == Lookups(st.locals, row, inf)
      st1 == [st EXCEPT !.total_count = @ + 1, !.locals = lk.locals]
  IN IF lk.missing # <<>>
     THEN LET st2 == [st1 EXCEPT !.unmatched_count = @ + 1]
          IN IF warn
             THEN [st2 EXCEPT !.warning_strings = @ \cup {WarningString(lk.missing[1])}]
             ELSE PolicyCheck(st2, row)
     ELSE PolicyCheck(st1, row)

LoopStart == [total_count |-> 0, failed_count |-> 0, success_count |-> 0, unmatched_count |-> 0, failed_strings |-> {}, warning_strings |-> {}, locals |-> NoLocals, raised |-> FALSE]

SummaryOf(st, warn) == [total |-> st.total_count, unmatched |-> st.unmatched_count, success |-> st.success_count, failed |-> st.failed_count, dedup_failed |-> Cardinality(st.failed_strings), failed_lines |-> st.failed_strings, warning_lines |-> IF warn THEN st.warning_strings ELSE {}, hint |-> (st.unmatched_count > 0 /\ ~warn)]

(***************************************************************************)
(* Inputs: the flow log CSV.                                               *)
(***************************************************************************)
FlowKeys == {<<10, 0, 0>>, <<10, 0, 1>>, <<10, 0, 5>>}

Packets == {3, 7}

Header == <<"src", "dest", "numpackets">>

FlowLines == {<<s, d, n>> : s \in FlowKeys, d \in FlowKeys, n \in Packets}

(***************************************************************************)
(* main() from the return of excel_to_cidr_dict to the summary.  flowlog   *)
(* holds the header and the data lines the file has yielded so far; the    *)
(* file ends (eof) wherever the environment ends it.                       *)
(***************************************************************************)
Row(octets, prefix, name) == CHOOSE r \in TopologyRows : r.cidr.octets = octets /\ r.cidr.prefix = prefix /\ r.name = name

CheckSheets == {<<Row(<<10, 0, 0, 0>>, 23, "Core"), Row(<<10, 0, 4, 0>>, 23, "Spoke")>>, <<Row(<<10, 0, 0, 0>>, 23, "Core"), Row(<<10, 0, 1, 0>>, 24, "Spoke")>>}

InitCheck ==
  /\ sheet \in CheckSheets
  /\ show_warnings \in BOOLEAN
  /\ row_idx = Len(sheet) + 1
  /\ return_dict = ExcelToCidrDict(sheet, show_warnings).return_dict
  /\ printed = ExcelToCidrDict(sheet, show_warnings).printed
  /\ info = return_dict
  /\ CheckerIdle
  /\ pc = "open"

OpenFlowLog ==
  /\ pc = "open"
  /\ flowlog' = [header |-> Header, rows |-> <<>>]
  /\ pc' = "skip"
  /\ UNCHANGED <<show_warnings, info, eof, fieldnames, line_num, total_count, failed_count, success_count, unmatched_count, failed_strings, warning_strings, locals, summary>>
  /\ UNCHANGED loaderVars

SkipApply(upcoming) ==
  LET nx == DictReaderNext(flowlog.header, fieldnames, line_num, upcoming)
  IN /\ fieldnames' = nx.fieldnames
     /\ line_num' = nx.line_num
     /\ flowlog' = (IF nx.taken THEN [flowlog EXCEPT !.rows = Append(@, upcoming[1])] ELSE flowlog)
     /\ eof' = (upcoming = <<>>)
     /\ total_count' = 0
     /\ failed_count' = 0
     /\ success_count' = 0
     /\ unmatched_count' = 0
     /\ pc' = "loop"
     /\ UNCHANGED <<show_warnings, info, failed_strings, warning_strings, locals, summary>>
     /\ UNCHANGED loaderVars

SkipHeader ==
  /\ pc = "skip"
  /\ \E line \in FlowLines : SkipApply(<<line>>)

SkipHeaderEmpty ==
  /\ pc = "skip"
  /\ SkipApply(<<>>)

LoopState == [total_count |-> total_count, failed_count |-> failed_count, success_count |-> success_count, unmatched_count |-> unmatched_count, failed_strings |-> failed_strings, warning_strings |-> warning_strings, locals |-> locals, raised |-> FALSE]

LoopBodyApply(line) ==
  LET nx == DictReaderNext(flowlog.header, fieldnames, line_num, <<line>>)
      st == LoopBody(LoopState, nx.row, info, show_warnings)
  IN /\ fieldnames' = nx.fieldnames
     /\ line_num' = nx.line_num
     /\ flowlog' = [flowlog EXCEPT !.rows = Append(@, line)]
     /\ total_count' = st.total_count
     /\ failed_count' = st.failed_count
     /\ success_count' = st.success_count
     /\ unmatched_count' = st.unmatched_count
     /\ failed_strings' = st.failed_strings
     /\ warning_strings' = st.warning_strings
     /\ locals' = st.locals
     /\ pc' = (IF st.raised THEN "crashed" ELSE "loop")
     /\ UNCHANGED <<show_warnings, info, eof, summary>>
     /\ UNCHANGED loaderVars

MoreRows == pc = "loop" /\ ~eof /\ Len(flowlog.rows) < MaxFlowRows

RowHit ==
  /\ MoreRows
  /\ \E line \in FlowLines : line[1] \in DOMAIN info /\ line[2] \in DOMAIN info /\ LoopBodyApply(line)

RowMissContinue ==
  /\ MoreRows
  /\ show_warnings
  /\ \E line \in FlowLines : (line[1] \notin DOMAIN info \/ line[2] \notin DOMAIN info) /\ LoopBodyApply(line)

RowMissFallThrough ==
  /\ MoreRows
  /\ ~show_warnings
  /\ \E line \in FlowLines : (line[1] \notin DOMAIN info \/ line[2] \notin DOMAIN info) /\ LoopBodyApply(line)

Summary ==
  /\ pc = "loop"
  /\ eof' = TRUE
  /\ summary' = <<SummaryOf(LoopState, show_warnings)>>
  /\ pc' = "done"
  /\ UNCHANGED <<show_warnings, info, flowlog, fieldnames, line_num, total_count, failed_count, success_count, unmatched_count, failed_strings, warning_strings, locals>>
  /\ UNCHANGED loaderVars

NextCheck == OpenFlowLog \/ SkipHeader \/ SkipHeaderEmpty \/ RowHit \/ RowMissContinue \/ RowMissFallThrough \/ Summary

SpecCheck == InitCheck /\ [][NextCheck]_vars

Next == NextLoad \/ NextCheck

Spec == Init /\ [][Next]_vars

(***************************************************************************)
(* main() as a function of its inputs: the whole loop over a flow log.     *)
(***************************************************************************)
Upcoming(file, names, num) ==
  LET idx == IF names = <<>> THEN num + 1 ELSE num
  IN IF idx <= Len(file.rows) THEN <<file.rows[idx]>> ELSE <<>>

RECURSIVE RunLoop(_, _, _, _, _, _)
RunLoop(st, file, names, num, inf, warn) ==
  LET nx == DictReaderNext(file.header, names, num, Upcoming(file, names, num))
  IN IF st.raised \/ nx.stop THEN st
     ELSE RunLoop(LoopBody(st, nx.row, inf, warn), file, nx.fieldnames, nx.line_num, inf, warn)

RunCheck(file, inf, warn) ==
  LET skipped == DictReaderNext(file.header, <<>>, 0, Upcoming(file, <<>>, 0))
  IN RunLoop(LoopStart, file, skipped.fieldnames, skipped.line_num, inf, warn)

(***************************************************************************)
(* Vocabulary of the loader claims, stated on addresses and character      *)
(* positions rather than through the loader's own operators.               *)
(***************************************************************************)
KeyUniverse == {<<10, 0, c>> : c \in 0..7}

KeyAddr(k) == ((k[1] * 256 + k[2]) * 256 + k[3]) * 256

BlockSize(cidr) == Pow2(32 - cidr.prefix)

BlockBase(cidr) == AddrOf(cidr.octets) - (AddrOf(cidr.octets) % BlockSize(cidr))

IsNetworkAddress(cidr) == AddrOf(cidr.octets) % BlockSize(cidr) = 0

Partition24(cidr) == {k \in KeyUniverse : BlockBase(cidr) <= KeyAddr(k) /\ KeyAddr(k) + 255 <= BlockBase(cidr) + BlockSize(cidr) - 1}

Representable(cidr) == cidr.prefix <= 24 /\ IsNetworkAddress(cidr)

SetMin(S) == CHOOSE x \in S : \A y \in S : x <= y

SetMax(S) == CHOOSE x \in S : \A y \in S : y <= x

CommaAt(str) == {i \in 1..Len(str) : str[i] = ","}

NthComma(str, j) == CHOOSE i \in CommaAt(str) : Cardinality({m \in CommaAt(str) : m < i}) = j - 1

Trimmed(str, a, b) == LET nb == {i \in a..b : str[i] # " "} IN IF nb = {} THEN <<>> ELSE SubSeq(str, SetMin(nb), SetMax(nb))

TagList(str) ==
  IF str = <<>> THEN <<>>
  ELSE LET n == Cardinality(CommaAt(str)) + 1
       IN [j \in 1..n |-> Trimmed(str, IF j = 1 THEN 1 ELSE NthComma(str, j - 1) + 1, IF j = n THEN Len(str) ELSE NthComma(str, j) - 1)]

CarriesRow(rec, row) ==
  /\ rec.cidr.octets = row.cidr.octets
  /\ rec.cidr.prefix = row.cidr.prefix
  /\ rec.cidr.spaces = 0
  /\ rec.account_id = row.account_id
  /\ rec.name = row.name
  /\ rec.vpc_id = row.vpc_id
  /\ rec.associate_with = row.associate_with
  /\ rec.propagate_to = TagList(row.propagate_to)

Processed == 1..(row_idx - 1)

Covering(k) == {i \in Processed : Representable(sheet[i].cidr) /\ k \in Partition24(sheet[i].cidr)}

(***************************************************************************)
(* Claims about excel_to_cidr_dict, checked under SpecLoad.                *)
(***************************************************************************)

StepC7 ==
  (pc = "load" /\ row_idx <= Len(sheet) /\ sheet[row_idx].cidr.prefix > 24) =>
    /\ return_dict' = return_dict
    /\ printed' = (IF show_warnings THEN Append(printed, [cidr |-> [octets |-> sheet[row_idx].cidr.octets, prefix |-> sheet[row_idx].cidr.prefix, spaces |-> 0], name |-> sheet[row_idx].name]) ELSE printed)
    /\ row_idx' = row_idx + 1
    /\ pc' = "load"

LaterRowsLoaded == pc = "open" => row_idx = Len(sheet) + 1 /\ \A i \in 1..Len(sheet) : Representable(sheet[i].cidr) => Partition24(sheet[i].cidr) \subseteq DOMAIN info

RowStep == pc = "loop" /\ flowlog'.rows # flowlog.rows

CurLine == flowlog.rows[Len(flowlog.rows)]

Hit(line) == line[1] \in DOMAIN info /\ line[2] \in DOMAIN info

Allowed(line) == info[line[1]].associate_with \in {info[line[2]].propagate_to[i] : i \in 1..Len(info[line[2]].propagate_to)}

MessageFor(srec, drec) == <<srec.cidr, srec.name, srec.vpc_id, drec.cidr, drec.name, drec.vpc_id, srec.associate_with, drec.propagate_to>>

Permuted(file, f) == [file EXCEPT !.rows = [i \in 1..Len(file.rows) |-> file.rows[f[i]]]]

(***************************************************************************)
(* Claims about the flow checking loop, checked under SpecCheck.           *)
(***************************************************************************)

(* C1: a row whose src or dst key is missing from the index adds 1 to      *)
(* unmatched and leaves success, failed and the failure messages as they   *)
(* were, whatever show_warnings is.                                        *)
CexC1 == [][(RowStep /\ ~Hit(CurLine')) => (unmatched_count' = unmatched_count + 1 /\ success_count' = success_count /\ failed_count' = failed_count /\ failed_strings' = failed_strings)]_vars

(* C2: a row whose src and dst keys are both in the index leaves unmatched *)
(* alone and adds 1 to exactly one of success and failed: to success iff   *)
(* the src record's association is among the dst record's propagations,    *)
(* otherwise to failed, adding the message built from the two records.     *)
StepC2 ==
  (RowStep /\ Hit(CurLine')) =>
    /\ unmatched_count' = unmatched_count
    /\ pc' = "loop"
    /\ IF Allowed(CurLine')
       THEN success_count' = success_count + 1 /\ failed_count' = failed_count /\ failed_strings' = failed_strings
       ELSE failed_count' = failed_count + 1 /\ success_count' = success_count /\ failed_strings' = failed_strings \cup {MessageFor(info[CurLine'[1]], info[CurLine'[2]])}

ThmC2 == [][StepC2]_vars

WitC2 == pc = "done" /\ show_warnings /\ summary[1].success >= 1 /\ summary[1].failed >= 1 /\ summary[1].unmatched = 0 /\ summary[1].success + summary[1].failed = summary[1].total

(* C3: the reported total is the number of data rows of the file.          *)
CexC3 == pc = "done" => summary[1].total = Len(flowlog.rows)

(* C4: the summary of a run is the summary of the run over any permutation *)
(* of the same data rows.                                                  *)
CexC4 == pc = "done" => \A f \in Permutations(1..Len(flowlog.rows)) : ~RunCheck(Permuted(flowlog, f), info, show_warnings).raised /\ SummaryOf(RunCheck(Permuted(flowlog, f), info, show_warnings), show_warnings) = summary[1]

(* C5: no row makes the loop raise.                                        *)
CexC5 == pc # "crashed"

(* C9: the failure messages never outnumber failed and are empty exactly   *)
(* when failed is 0; the reported deduplicated count is their number; and  *)
(* a failing row that resolves to the same src record and the same dst     *)
(* record as an earlier processed row adds 1 to failed and no message,     *)
(* whatever the two rows' numpackets.                                      *)
InvC9 ==
  /\ Cardinality(failed_strings) <= failed_count
  /\ (failed_strings = {}) <=> (failed_count = 0)
  /\ pc = "done" => summary[1].dedup_failed = Cardinality(failed_strings) /\ summary[1].failed = failed_count

StepC9 ==
  (/\ RowStep
   /\ Hit(CurLine')
   /\ ~Allowed(CurLine')
   /\ \E j \in 2..Len(flowlog.rows) : Hit(flowlog.rows[j]) /\ info[flowlog.rows[j][1]] = info[CurLine'[1]] /\ info[flowlog.rows[j][2]] = info[CurLine'[2]])
  => (failed_count' = failed_count + 1 /\ failed_strings' = failed_strings)

ThmC9 == []InvC9 /\ [][StepC9]_vars

WitC9 == pc = "done" /\ Len(flowlog.rows) = 3 /\ flowlog.rows[2][3] # flowlog.rows[3][3] /\ flowlog.rows[2][1] # flowlog.rows[3][1] /\ summary[1].failed = 2 /\ summary[1].dedup_failed = 1

====
